---- MODULE Spec2Model ----
(***************************************************************************)
(* Transaction-and-balance consistency of the personal finance manager.   *)
(* The state is the ledger store (accounts, categories, transactions) and *)
(* the request handlers of src/controller.py, each with its own ORM       *)
(* session: what a handler has loaded and changed stays in its session    *)
(* until db.session.commit() writes it to the store in one unit of work.  *)
(* Amounts and balances are integers (one unit = one currency unit).      *)
(***************************************************************************)
EXTENDS Integers, Sequences, FiniteSets, TLC

\* ------------------------------------------------------------------ bounds
MaxTxns == 2
NumHandlers == 2
MaxRows == 3
MaxLedger == 3

Users == {1, 2}
Handlers == 1..NumHandlers
TxnIds == 1..MaxTxns

\* datetime.now().date(), as an integer yyyymmdd
Today == 20240410

\* the year and the month of a date
Year(d) == d \div 10000
Month(d) == (d \div 100) % 100

\* ------------------------------------------------------------ JSON values
Absent == [t |-> "absent", n |-> 0, s |-> ""]
N(n) == [t |-> "num", n |-> n, s |-> ""]
S(s) == [t |-> "str", n |-> 0, s |-> s]

\* Python truthiness of data.get(field): None, 0 and "" are falsy
Truthy(v) == (v.t = "num" /\ v.n # 0) \/ (v.t = "str" /\ v.s # "")

\* Decimal(str(v)): a JSON number converts to its value, a string converts
\* when it spells a number, anything else raises InvalidOperation
DecimalOf(v) ==
    CASE v.t = "num" -> [ok |-> TRUE, val |-> v.n]
      [] v.t = "str" /\ v.s = "40" -> [ok |-> TRUE, val |-> 40]
      [] v.t = "str" /\ v.s = "0" -> [ok |-> TRUE, val |-> 0]
      [] OTHER -> [ok |-> FALSE, val |-> 0]

\* datetime.strptime(s, '%Y-%m-%d').date(): ValueError unless s is a date
\* a bug: a date string in another format is taken for a date
StrpDateLenient(s) == [ok |-> TRUE, val |-> 20240305]

StrpDate(s) ==
    CASE s = "2024-03-05" -> [ok |-> TRUE, val |-> 20240305]
      [] OTHER -> [ok |-> FALSE, val |-> 0]

\* ------------------------------------------------------------------ state
VARIABLES
    accounts,         \* id -> [user_id, balance, is_active]
    categories,       \* id -> [user_id, category_type, is_active]
    transactions,     \* id -> transaction row
    next_tid,         \* the transactions table's id sequence
    pc,               \* handler -> where the handler is
    sess,             \* handler -> the handler's ORM session
    resp,             \* handler -> the response the handler is sending
    initial_balance,  \* history: id -> the balance the account was created with
    created_by,       \* history: transaction id -> the user who created it
    before_create,    \* history: the store as the latest create found it,
                      \*          while nothing else has changed the store
    db_manager        \* the DatabaseManager of src/model.py: its transactions
                      \* table, the table's id sequence, the database clock
                      \* and what the latest call returned

vars == <<accounts, categories, transactions, next_tid, pc, sess, resp,
          initial_balance, created_by, before_create, db_manager>>
store == <<accounts, categories, transactions, next_tid>>
history == <<initial_balance, created_by, before_create>>

NoTxn == [account_id |-> 0, category_id |-> 0, amount |-> 0,
          description |-> "", transaction_type |-> "",
          transaction_date |-> 0]

NoPatch == [is_null |-> FALSE, amount |-> Absent, description |-> Absent,
            transaction_date |-> Absent, transaction_type |-> Absent]

NoSess == [op |-> "", user_id |-> 0, tid |-> 0, patch |-> NoPatch,
           txn |-> NoTxn,
           orig |-> NoTxn, old_amount |-> 0, old_type |-> "",
           txn_dirty |-> FALSE,
           account_id |-> 0, loaded |-> 0, balance |-> 0]

\* the JSON body of the dashboard and of the spending trends: the set of the
\* accounts listed, the set of the recent transactions, spending_by_category
\* as category id -> amount, trends as the sequence of [year, month, total]
NoBody == [total_balance |-> 0, monthly_income |-> 0, monthly_expenses |-> 0,
           net_income |-> 0, accounts |-> {}, recent_transactions |-> {},
           spending_by_category |-> <<>>,
           total_transactions_this_month |-> 0, trends |-> <<>>]

\* a response: the status and error message, the transaction returned, the
\* ids listed; with the request it answers (op, user_id, tid, patch, months)
\* and the row an update found (old)
NoResp == [op |-> "", user_id |-> 0, tid |-> 0, patch |-> NoPatch, months |-> 0,
           status |-> 0, error |-> "", txn |-> NoTxn, old |-> NoTxn,
           items |-> {}, body |-> NoBody]

NoCreate == [tid |-> 0, accounts |-> <<>>, transactions |-> <<>>]

\* what get_monthly_summary returns; savings_rate is the fraction num / den
NoSummary == [total_income |-> 0, total_expense |-> 0, income_count |-> 0,
              expense_count |-> 0, net_savings |-> 0,
              savings_rate |-> [num |-> 0, den |-> 1]]

\* the arguments of DatabaseManager.get_transactions, None written as "" or 0
DefaultArgs == [limit |-> 100, offset |-> 0, category |-> "",
                transaction_type |-> "", date_from |-> 0, date_to |-> 0]

\* what has happened to the connection of a DatabaseManager call
NoConn == [opened |-> FALSE, committed |-> FALSE, rolled_back |-> FALSE,
           closed |-> FALSE]

\* the outcome of a DatabaseManager call: the method and its arguments, whether
\* it raised, the value returned, and what was done with its connection
NoRet == [op |-> "", raised |-> FALSE, id |-> 0, year |-> 0, month |-> 0,
          args |-> DefaultArgs, deleted |-> FALSE, list |-> <<>>,
          summary |-> NoSummary, days |-> 0, spending |-> <<>>,
          conn |-> NoConn]

\* DatabaseManager.__init__ and init_database: the tables are created empty
NewManager == [rows |-> <<>>, budgets |-> <<>>, next_id |-> 1, now |-> 0,
               ret |-> NoRet]

\* init_default_categories(user_id): every user gets expense and income
\* categories of their own
DefaultCategories ==
    [c \in 1..4 |->
        [user_id |-> IF c <= 2 THEN 1 ELSE 2,
         category_type |-> IF c % 2 = 1 THEN "expense" ELSE "income",
         is_active |-> TRUE]]

\* create_account: every user has opened one account, with balance 1000
OpenedAccounts ==
    [a \in 1..2 |-> [user_id |-> a, balance |-> 1000, is_active |-> TRUE]]

Init ==
    /\ accounts = OpenedAccounts
    /\ categories = DefaultCategories
    /\ transactions = <<>>
    /\ next_tid = 1
    /\ initial_balance = [a \in DOMAIN OpenedAccounts |-> OpenedAccounts[a].balance]
    /\ created_by = <<>>
    /\ before_create = NoCreate
    /\ pc = [h \in Handlers |-> "idle"]
    /\ sess = [h \in Handlers |-> NoSess]
    /\ resp = [h \in Handlers |-> NoResp]
    /\ db_manager = NewManager

\* A handler returns its response; what its session still holds is never
\* written: the session is removed when the request is torn down.
Respond(h, r) ==
    /\ resp' = [resp EXCEPT ![h] = r]
    /\ pc' = [pc EXCEPT ![h] = "done"]
    /\ sess' = [sess EXCEPT ![h] = NoSess]
    /\ UNCHANGED db_manager

\* the response is sent and the handler is free for the next request
Teardown(h) ==
    /\ pc[h] = "done"
    /\ pc' = [pc EXCEPT ![h] = "idle"]
    /\ resp' = [resp EXCEPT ![h] = NoResp]
    /\ UNCHANGED <<store, sess, history, db_manager>>

Reply(op, u, tid, status, error) ==
    [NoResp EXCEPT !.op = op, !.user_id = u, !.tid = tid,
                   !.status = status, !.error = error]

\* an error response: nothing was committed
Refuse(h, op, u, tid, status, error) ==
    /\ Respond(h, Reply(op, u, tid, status, error))
    /\ UNCHANGED <<store, history>>

\* ------------------------------------------------- balance reconciliation
\* a bug: every transaction is applied as an expense
ApplyAlwaysExpense(balance, amount, type) == balance - amount

\* create_transaction and update_transaction apply a transaction's effect:
\* an expense subtracts its amount, an income adds it
Apply(balance, amount, type) ==
    IF type = "expense" THEN balance - amount ELSE balance + amount

\* a bug: every transaction is reversed as an expense
ReverseIgnoringType(balance, amount, type) == balance + amount

\* update_transaction and delete_transaction reverse a transaction's effect
Reverse(balance, amount, type) ==
    IF type = "expense" THEN balance + amount ELSE balance - amount

\* ------------------------------------------------------------- decorators
\* validate_json(required_fields): the payload must be a JSON object that
\* holds a truthy value for every required field
ValidateJson(data, fields) ==
    \A f \in fields : Truthy(data[f])

\* ------------------------------------------------------ create_transaction
\* well-formed requests: every account and category of either user, both
\* directions, an amount as a JSON number and as a string; one of them dated
UndatedData ==
    [account_id : {N(1), N(2)},
     category_id : {N(c) : c \in 1..4},
     amount : {N(100), S("40")},
     description : {S("lunch")},
     transaction_type : {S("income"), S("expense")},
     transaction_date : {Absent},
     csrf_token : {TRUE}]

DatedData ==
    {[d EXCEPT !.transaction_date = S("2024-03-05")] :
        d \in {w \in UndatedData : /\ w.account_id = N(1)
                                   /\ w.category_id = N(1)
                                   /\ w.amount = S("40")
                                   /\ w.transaction_type = S("expense")}}

WellFormedData == UndatedData \cup DatedData

\* the requests among them that succeed, with one field missing or malformed
MalformedData ==
    UNION {{[d EXCEPT !.account_id = N(0)],
            [d EXCEPT !.account_id = N(3)],
            [d EXCEPT !.category_id = N(5)],
            [d EXCEPT !.amount = N(0)],
            [d EXCEPT !.amount = N(-5)],
            [d EXCEPT !.amount = S("abc")],
            [d EXCEPT !.description = N(7)],
            [d EXCEPT !.transaction_type = S("transfer")],
            [d EXCEPT !.transaction_date = S("03/05/2024")],
            [d EXCEPT !.csrf_token = FALSE]} :
           d \in {w \in WellFormedData :
                     /\ w.amount = N(100)
                     /\ w.transaction_date = Absent
                     /\ w.category_id.n \in {2 * w.account_id.n - 1, 2 * w.account_id.n}
                     /\ (w.category_id.n % 2 = 1) = (w.transaction_type.s = "expense")}}

TransactionData == WellFormedData \cup MalformedData

\* a bug: the account is looked up by id alone
FindAccountAnyOwner(id, u) ==
    IF id \in DOMAIN accounts /\ accounts[id].is_active THEN id ELSE 0

\* Account.query.filter_by(id=..., user_id=user_id, is_active=True).first()
FindAccount(id, u) ==
    IF /\ id \in DOMAIN accounts
       /\ accounts[id].user_id = u
       /\ accounts[id].is_active
    THEN id ELSE 0

\* Category.query.filter_by(id=..., user_id=user_id, is_active=True).first()
FindCategory(id, u) ==
    IF /\ id \in DOMAIN categories
       /\ categories[id].user_id = u
       /\ categories[id].is_active
    THEN id ELSE 0

\* creates whose INSERT has not been flushed yet take the next ids
PendingCreates ==
    Cardinality({g \in Handlers : pc[g] = "commit" /\ sess[g].op = "create"})

\* a bug: the category type is never compared
CategoryTypeIgnored(category, type) == TRUE

\* the category type check of create_transaction
CategoryTypeMatches(category, type) ==
    categories[category].category_type = type

create_transaction(h, u, data) ==
    /\ pc[h] = "idle"
    /\ LET amount == DecimalOf(data.amount)
           account == FindAccount(data.account_id.n, u)
           category == FindCategory(data.category_id.n, u)
           date == IF Truthy(data.transaction_date)
                   THEN StrpDate(data.transaction_date.s)
                   ELSE [ok |-> TRUE, val |-> Today]
           type == data.transaction_type.s
           fail(status, error) == Refuse(h, "create", u, 0, status, error)
       IN  IF ~ValidateJson(data, {"account_id", "category_id", "amount",
                                   "description", "transaction_type"})
           THEN fail(400, "Missing required fields")
           ELSE IF ~data.csrf_token
           THEN fail(500, "Failed to create transaction")
           ELSE IF type \notin {"income", "expense"}
           THEN fail(400, "Invalid transaction type")
           ELSE IF ~amount.ok
           THEN fail(400, "Invalid amount format")
           ELSE IF amount.val <= 0
           THEN fail(400, "Amount must be positive")
           ELSE IF account = 0
           THEN fail(400, "Invalid account")
           ELSE IF category = 0
           THEN fail(400, "Invalid category")
           ELSE IF ~CategoryTypeMatches(category, type)
           THEN fail(400, "Category type does not match transaction type")
           ELSE IF ~date.ok
           THEN fail(400, "Invalid date format")
           ELSE IF data.description.t # "str"
           THEN fail(500, "Failed to create transaction")
           ELSE /\ next_tid + PendingCreates <= MaxTxns
                /\ sess' = [sess EXCEPT ![h] =
                       [NoSess EXCEPT
                          !.op = "create", !.user_id = u,
                          !.txn = [account_id |-> account,
                                   category_id |-> category,
                                   amount |-> amount.val,
                                   description |-> data.description.s,
                                   transaction_type |-> type,
                                   transaction_date |-> date.val],
                          !.txn_dirty = TRUE,
                          !.account_id = account,
                          !.loaded = accounts[account].balance,
                          !.balance = Apply(accounts[account].balance,
                                            amount.val, type)]]
                /\ pc' = [pc EXCEPT ![h] = "commit"]
                /\ UNCHANGED <<resp, history, db_manager>>
                /\ UNCHANGED store

\* ------------------------------------------------------ update_transaction
NullPatch == [NoPatch EXCEPT !.is_null = TRUE]

\* the JSON body of a PUT: a key that is missing is Absent; null is a body
\* that is no object at all
WellFormedPatch ==
    [is_null : {FALSE},
     amount : {Absent, S("40"), N(100)},
     description : {Absent},
     transaction_date : {Absent},
     transaction_type : {Absent, S("income")}]

\* a patch of the description and the date
DatedPatch ==
    [NoPatch EXCEPT !.description = S("dinner"),
                    !.transaction_date = S("2024-03-05")]

\* the same patches with one field malformed, and the null body
MalformedPatch ==
    UNION {{[d EXCEPT !.amount = N(0)],
            [d EXCEPT !.amount = S("abc")],
            [d EXCEPT !.description = N(7)],
            [d EXCEPT !.transaction_date = S("03/05/2024")]} :
           d \in WellFormedPatch}
    \cup {NullPatch}

PatchData == WellFormedPatch \cup MalformedPatch

\* a bug: the transaction is looked up by id alone
FindTransactionAnyOwner(tid, u) ==
    IF tid \in DOMAIN transactions THEN tid ELSE 0

\* Transaction.query.join(Account).filter(Transaction.id == transaction_id,
\*                                        Account.user_id == user_id).first()
FindTransaction(tid, u) ==
    IF /\ tid \in DOMAIN transactions
       /\ transactions[tid].account_id \in DOMAIN accounts
       /\ accounts[transactions[tid].account_id].user_id = u
    THEN tid ELSE 0

\* a bug: the patch's transaction_type is copied onto the row as well
PatchedTxnTakesType(txn, data, new_amount, new_date) ==
    [txn EXCEPT
       !.amount = IF data.amount.t # "absent" THEN new_amount ELSE @,
       !.description = IF data.description.t # "absent"
                       THEN data.description.s ELSE @,
       !.transaction_date = IF data.transaction_date.t # "absent"
                            THEN new_date ELSE @,
       !.transaction_type = IF data.transaction_type.t # "absent"
                            THEN data.transaction_type.s ELSE @]

\* a bug: the patch's amount is validated but never stored
PatchedTxnKeepsAmount(txn, data, new_amount, new_date) ==
    [txn EXCEPT
       !.description = IF data.description.t # "absent"
                       THEN data.description.s ELSE @,
       !.transaction_date = IF data.transaction_date.t # "absent"
                            THEN new_date ELSE @]

\* the fields update_transaction copies from the patch onto the loaded row
PatchedTxn(txn, data, new_amount, new_date) ==
    [txn EXCEPT
       !.amount = IF data.amount.t # "absent" THEN new_amount ELSE @,
       !.description = IF data.description.t # "absent"
                       THEN data.description.s ELSE @,
       !.transaction_date = IF data.transaction_date.t # "absent"
                            THEN new_date ELSE @]

update_transaction(h, u, transaction_id, data) ==
    /\ pc[h] = "idle"
    /\ LET tid == FindTransaction(transaction_id, u)
           new_amount == DecimalOf(data.amount)
           new_date == StrpDate(data.transaction_date.s)
           fail(status, error) ==
               Refuse(h, "update", u, transaction_id, status, error)
       IN  IF tid = 0
           THEN fail(404, "Transaction not found")
           ELSE IF data.is_null
           THEN fail(500, "Failed to update transaction")
           ELSE IF data.amount.t # "absent" /\ ~new_amount.ok
           THEN fail(400, "Invalid amount format")
           ELSE IF data.amount.t # "absent" /\ new_amount.val <= 0
           THEN fail(400, "Amount must be positive")
           ELSE IF data.description.t \notin {"absent", "str"}
           THEN fail(500, "Failed to update transaction")
           ELSE IF data.transaction_date.t # "absent" /\ ~new_date.ok
           THEN fail(400, "Invalid date format")
           ELSE LET txn == PatchedTxn(transactions[tid], data,
                                      new_amount.val, new_date.val)
                IN  /\ sess' = [sess EXCEPT ![h] =
                           [NoSess EXCEPT
                              !.op = "update", !.user_id = u, !.tid = tid,
                              !.patch = data,
                              !.txn = txn,
                              !.orig = transactions[tid],
                              !.old_amount = transactions[tid].amount,
                              !.old_type = transactions[tid].transaction_type,
                              !.txn_dirty = (txn # transactions[tid])]]
                    /\ pc' = [pc EXCEPT ![h] = "load_account"]
                    /\ UNCHANGED <<resp, history, db_manager>>
                    /\ UNCHANGED store

\* ------------------------------------------------------ delete_transaction
\* a bug: a delete that finds no transaction is answered as a success
delete_transaction_unfound_ok(h, u, transaction_id) ==
    /\ pc[h] = "idle"
    /\ LET tid == FindTransaction(transaction_id, u)
       IN  IF tid = 0
           THEN Refuse(h, "delete", u, transaction_id, 200, "")
           ELSE /\ sess' = [sess EXCEPT ![h] =
                       [NoSess EXCEPT
                          !.op = "delete", !.user_id = u, !.tid = tid,
                          !.txn = transactions[tid],
                          !.orig = transactions[tid]]]
                /\ pc' = [pc EXCEPT ![h] = "load_account"]
                /\ UNCHANGED <<resp, history, db_manager>>
                /\ UNCHANGED store

delete_transaction(h, u, transaction_id) ==
    /\ pc[h] = "idle"
    /\ LET tid == FindTransaction(transaction_id, u)
       IN  IF tid = 0
           THEN Refuse(h, "delete", u, transaction_id, 404,
                       "Transaction not found")
           ELSE /\ sess' = [sess EXCEPT ![h] =
                       [NoSess EXCEPT
                          !.op = "delete", !.user_id = u, !.tid = tid,
                          !.txn = transactions[tid],
                          !.orig = transactions[tid]]]
                /\ pc' = [pc EXCEPT ![h] = "load_account"]
                /\ UNCHANGED <<resp, history, db_manager>>
                /\ UNCHANGED store

\* a bug: the balance is moved by the difference of the amounts, whatever
\* the direction
ReapplyAsDelta(balance, old_amount, old_type, new_amount, new_type) ==
    balance + (new_amount - old_amount)

\* the balance update_transaction leaves in the session: the old effect
\* reversed, then the new effect applied
Reapply(balance, old_amount, old_type, new_amount, new_type) ==
    Apply(Reverse(balance, old_amount, old_type), new_amount, new_type)

\* account = transaction.account, a lazy load: the session first flushes a
\* changed row (an UPDATE that matches no row raises StaleDataError), then
\* reads the account as committed now; the handler then computes the balance
load_account(h) ==
    /\ pc[h] = "load_account"
    /\ LET s == sess[h]
           a == s.txn.account_id
       IN  IF s.txn_dirty /\ s.tid \notin DOMAIN transactions
           THEN Refuse(h, s.op, s.user_id, s.tid, 500,
                       "Failed to update transaction")
           ELSE /\ sess' = [sess EXCEPT ![h] =
                       [s EXCEPT
                          !.account_id = a,
                          !.loaded = accounts[a].balance,
                          !.balance =
                              IF s.op = "update"
                              THEN Reapply(accounts[a].balance,
                                           s.old_amount, s.old_type,
                                           s.txn.amount, s.txn.transaction_type)
                              ELSE Reverse(accounts[a].balance,
                                           s.txn.amount, s.txn.transaction_type)]]
                /\ pc' = [pc EXCEPT ![h] = "commit"]
                /\ UNCHANGED <<resp, history, db_manager>>
                /\ UNCHANGED store

\* ------------------------------------------------------ db.session.commit()
FailureMessage(op) ==
    CASE op = "create" -> "Failed to create transaction"
      [] op = "update" -> "Failed to update transaction"
      [] OTHER -> "Failed to delete transaction"

\* a bug: the UPDATE is not restricted to the account of the transaction: the
\* balance is written to every account of its owner
FlushEveryAccount(s) ==
    IF s.balance # s.loaded
    THEN [a \in DOMAIN accounts |->
             IF accounts[a].user_id = accounts[s.account_id].user_id
             THEN [accounts[a] EXCEPT !.balance = s.balance]
             ELSE accounts[a]]
    ELSE accounts

\* the flush's UPDATE of the account row: only a changed balance is written
FlushAccounts(s) ==
    IF s.balance # s.loaded
    THEN [accounts EXCEPT ![s.account_id].balance = s.balance]
    ELSE accounts

\* the columns of the row an UPDATE writes: those the session changed
MergeRow(row, s) ==
    [f \in DOMAIN row |-> IF s.txn[f] # s.orig[f] THEN s.txn[f] ELSE row[f]]

\* the flush's INSERT, UPDATE or DELETE of the transaction row (a DELETE
\* that matches no row only warns)
FlushTransactions(s) ==
    CASE s.op = "create" ->
           [t \in DOMAIN transactions \cup {next_tid} |->
               IF t = next_tid THEN s.txn ELSE transactions[t]]
      [] s.op = "update" ->
           IF s.txn_dirty
           THEN [transactions EXCEPT ![s.tid] = MergeRow(@, s)]
           ELSE transactions
      [] OTHER ->
           [t \in DOMAIN transactions \ {s.tid} |-> transactions[t]]

\* the success response: 201 with the new transaction, 200 with the updated
\* one, 200 with a message for a delete
Answer(s) ==
    CASE s.op = "create" ->
           [Reply("create", s.user_id, next_tid, 201, "") EXCEPT !.txn = s.txn]
      [] s.op = "update" ->
           [Reply("update", s.user_id, s.tid, 200, "")
              EXCEPT !.txn = s.txn, !.patch = s.patch, !.old = s.orig]
      [] OTHER -> Reply("delete", s.user_id, s.tid, 200, "")

\* the unit of work of a handler: both tables change in one commit
CommitOk(h) ==
    /\ pc[h] = "commit"
    /\ LET s == sess[h]
       IN  /\ ~(s.op = "update" /\ s.txn_dirty /\ s.tid \notin DOMAIN transactions)
           /\ accounts' = FlushAccounts(s)
           /\ transactions' = FlushTransactions(s)
           /\ next_tid' = IF s.op = "create" THEN next_tid + 1 ELSE next_tid
           /\ Respond(h, Answer(s))
           /\ created_by' = IF s.op = "create"
                             THEN [t \in DOMAIN created_by \cup {next_tid} |->
                                      IF t = next_tid THEN s.user_id
                                      ELSE created_by[t]]
                             ELSE created_by
           /\ before_create' =
                  CASE s.op = "create" ->
                         [tid |-> next_tid, accounts |-> accounts,
                          transactions |-> transactions]
                    [] s.op = "delete" /\ s.tid = before_create.tid ->
                         before_create
                    [] <<accounts', transactions'>> = <<accounts, transactions>> ->
                         before_create
                    [] OTHER -> NoCreate
           /\ UNCHANGED <<categories, initial_balance>>

\* a bug: the failed unit of work is not rolled back, and the account row
\* already flushed stays written
CommitFailNoRollback(h) ==
    /\ pc[h] = "commit"
    /\ accounts' = FlushAccounts(sess[h])
    /\ Respond(h, Reply(sess[h].op, sess[h].user_id, sess[h].tid, 500,
                        FailureMessage(sess[h].op)))
    /\ UNCHANGED <<categories, transactions, next_tid, history>>

\* the flush or the COMMIT raises (a stale row, a lost connection): the
\* handler's except branch calls db.session.rollback() and answers 500
CommitFail(h) ==
    /\ pc[h] = "commit"
    /\ Refuse(h, sess[h].op, sess[h].user_id, sess[h].tid, 500,
              FailureMessage(sess[h].op))

\* -------------------------------------------------------- get_transactions
\* the rows of Transaction.query.join(Account).filter(Account.user_id ==
\* user_id) that pass the account, category and type filters
OwnedTransactions(u) ==
    {t \in DOMAIN transactions :
        /\ transactions[t].account_id \in DOMAIN accounts
        /\ accounts[transactions[t].account_id].user_id = u}

get_transactions(h, u, account_id, category_id, type) ==
    /\ pc[h] = "idle"
    /\ Respond(h, [Reply("list", u, 0, 200, "") EXCEPT !.items =
           {t \in OwnedTransactions(u) :
               /\ account_id # 0 => transactions[t].account_id = account_id
               /\ category_id # 0 => transactions[t].category_id = category_id
               /\ type \in {"income", "expense"} =>
                      transactions[t].transaction_type = type}])
    /\ UNCHANGED <<store, history>>

\* ------------------------------------------------------------ specification
\* the requests the handlers are given
Requests == [users |-> Users, create |-> TransactionData, patch |-> PatchData]

CreateTransaction(h, in) ==
    \E u \in in.users, data \in in.create : create_transaction(h, u, data)

UpdateTransaction(h, in) ==
    \E u \in in.users, tid \in TxnIds, data \in in.patch :
        update_transaction(h, u, tid, data)

DeleteTransaction(h, in) ==
    \E u \in in.users, tid \in TxnIds : delete_transaction(h, u, tid)

GetTransactions(h, in) ==
    \E u \in in.users, a \in 0..2, c \in 0..1, type \in {"", "expense"} :
        get_transactions(h, u, a, c, type)

LoadAccount(h) == load_account(h)

Step(h, in) ==
    \/ CreateTransaction(h, in)
    \/ UpdateTransaction(h, in)
    \/ DeleteTransaction(h, in)
    \/ GetTransactions(h, in)
    \/ LoadAccount(h)
    \/ CommitOk(h)
    \/ CommitFail(h)
    \/ Teardown(h)

\* requests served one at a time
Next == Step(1, Requests)

Spec == Init /\ [][Next]_vars

\* concurrent handlers: user 1 creating expenses of 50 on account 1,
\* patching an amount to 40, deleting and listing, the steps interleaved
ConcurrentRequests ==
    [users |-> {1},
     create |-> {[account_id |-> N(1), category_id |-> N(1),
                  amount |-> N(50), description |-> S("lunch"),
                  transaction_type |-> S("expense"),
                  transaction_date |-> Absent, csrf_token |-> TRUE]},
     patch |-> {[NoPatch EXCEPT !.amount = S("40")]}]

ConcNext == \E h \in Handlers : Step(h, ConcurrentRequests)

ConcSpec == Init /\ [][ConcNext]_vars

\* requests served one at a time whose updates patch every field a patch may
\* carry: the amount, the description, the date and a transaction_type
UpdateRequests ==
    [users |-> Users,
     create |-> {[account_id |-> N(1), category_id |-> N(1),
                  amount |-> N(100), description |-> S("lunch"),
                  transaction_type |-> S("expense"),
                  transaction_date |-> Absent, csrf_token |-> TRUE],
                 [account_id |-> N(2), category_id |-> N(4),
                  amount |-> S("40"), description |-> S("lunch"),
                  transaction_type |-> S("income"),
                  transaction_date |-> Absent, csrf_token |-> TRUE]},
     patch |-> {DatedPatch,
                [DatedPatch EXCEPT !.amount = S("40"),
                                   !.transaction_type = S("income")],
                [NoPatch EXCEPT !.amount = N(100)],
                [NoPatch EXCEPT !.amount = S("40"),
                                !.transaction_date = S("03/05/2024")]}]

UpdateNext == Step(1, UpdateRequests)

UpdateSpec == Init /\ [][UpdateNext]_vars

\* ------------------------------------------------------- get_dashboard_data
RECURSIVE SumAmounts(_, _)
\* SUM(amount) over the rows in ids
SumAmounts(rows, ids) ==
    IF ids = {} THEN 0
    ELSE LET i == CHOOSE x \in ids : TRUE
         IN  rows[i].amount + SumAmounts(rows, ids \ {i})

DaysInMonth(y, m) ==
    CASE m \in {4, 6, 9, 11} -> 30
      [] m = 2 -> IF y % 4 = 0 /\ (y % 100 # 0 \/ y % 400 = 0) THEN 29 ELSE 28
      [] OTHER -> 31

\* datetime(now.year, now.month, 1).date()
MonthStart(d) == (d \div 100) * 100 + 1

\* (next_month - timedelta(days=1)).date(): the last day of now's month
MonthEnd(d) == (d \div 100) * 100 + DaysInMonth(Year(d), Month(d))

\* date.toordinal(), counted from 1970-01-01
Ordinal(date) ==
    LET y == Year(date) - (IF Month(date) <= 2 THEN 1 ELSE 0)
        era == y \div 400
        yoe == y - era * 400
        doy == (153 * (Month(date) + (IF Month(date) > 2 THEN 0 - 3 ELSE 9)) + 2) \div 5
                   + (date % 100) - 1
        doe == yoe * 365 + yoe \div 4 - yoe \div 100 + doy
    IN  era * 146097 + doe - 719468

\* date.fromordinal(n)
FromOrdinal(n) ==
    LET z == n + 719468
        era == z \div 146097
        doe == z - era * 146097
        yoe == (doe - doe \div 1460 + doe \div 36524 - doe \div 146096) \div 365
        doy == doe - (365 * yoe + yoe \div 4 - yoe \div 100)
        mp == (5 * doy + 2) \div 153
        d == doy - (153 * mp + 2) \div 5 + 1
        m == mp + (IF mp < 10 THEN 3 ELSE 0 - 9)
        y == yoe + era * 400 + (IF m <= 2 THEN 1 ELSE 0)
    IN  y * 10000 + m * 100 + d

\* date - timedelta(days=n)
DaysBefore(date, n) == FromOrdinal(Ordinal(date) - n)

RECURSIVE SumBalances(_)
\* sum(account.balance for account in accounts)
SumBalances(ids) ==
    IF ids = {} THEN 0
    ELSE LET a == CHOOSE x \in ids : TRUE
         IN  accounts[a].balance + SumBalances(ids \ {a})

\* a bug: the accounts are not filtered by is_active
AccountsOfUser(u) == {a \in DOMAIN accounts : accounts[a].user_id = u}

\* Account.query.filter_by(user_id=user_id, is_active=True).all()
ActiveAccounts(u) ==
    {a \in DOMAIN accounts : accounts[a].user_id = u /\ accounts[a].is_active}

\* a bug: the rows are not filtered by the user of their account
TransactionsOfAnyUser(u, date_from, date_to) ==
    {t \in DOMAIN transactions :
        /\ transactions[t].transaction_date >= date_from
        /\ transactions[t].transaction_date <= date_to}

\* the rows of user u dated from date_from to date_to: the join with Account
\* filtered by Account.user_id and by the two date bounds
TransactionsBetween(u, date_from, date_to) ==
    {t \in OwnedTransactions(u) :
        /\ transactions[t].transaction_date >= date_from
        /\ transactions[t].transaction_date <= date_to}

\* a bug: the rows are not filtered by transaction_type
OfAnyType(ids, type) == ids

\* the rows of ids with the given transaction_type
OfType(ids, type) == {t \in ids : transactions[t].transaction_type = type}

\* db.func.sum(Transaction.amount) of the join of Category, Transaction and
\* Account, grouped by category: one row for every category that has a row
SumByCategory(ids) ==
    [c \in {transactions[t].category_id : t \in ids} |->
        SumAmounts(transactions, {t \in ids : transactions[t].category_id = c})]

\* a bug: the dashboard writes off the accounts it does not list
get_dashboard_data_closing(h, u) ==
    /\ pc[h] = "idle"
    /\ Respond(h, Reply("dashboard", u, 0, 200, ""))
    /\ accounts' = [a \in DOMAIN accounts |->
                       IF accounts[a].user_id = u /\ ~accounts[a].is_active
                       THEN [accounts[a] EXCEPT !.balance = 0]
                       ELSE accounts[a]]
    /\ UNCHANGED <<categories, transactions, next_tid, history>>

get_dashboard_data(h, u) ==
    /\ pc[h] = "idle"
    /\ LET current_month_start == MonthStart(Today)
           current_month_end == MonthEnd(Today)
           monthly_transactions ==
               TransactionsBetween(u, current_month_start, current_month_end)
           monthly_income ==
               SumAmounts(transactions, OfType(monthly_transactions, "income"))
           monthly_expenses ==
               SumAmounts(transactions, OfType(monthly_transactions, "expense"))
       IN  Respond(h, [Reply("dashboard", u, 0, 200, "") EXCEPT !.body =
              [NoBody EXCEPT
                 !.total_balance = SumBalances(ActiveAccounts(u)),
                 !.monthly_income = monthly_income,
                 !.monthly_expenses = monthly_expenses,
                 !.net_income = monthly_income - monthly_expenses,
                 !.accounts = ActiveAccounts(u),
                 !.recent_transactions = OwnedTransactions(u),
                 !.spending_by_category =
                     SumByCategory(OfType(monthly_transactions, "expense")),
                 !.total_transactions_this_month =
                     Cardinality(monthly_transactions)]])
    /\ UNCHANGED <<store, history>>

\* ------------------------------------------------------ get_spending_trends
\* the year * 100 + month of the rows in ids, ascending
RECURSIVE MonthsOf(_)
MonthsOf(ms) ==
    IF ms = {} THEN <<>>
    ELSE LET m == CHOOSE x \in ms : \A y \in ms : x <= y
         IN  <<m>> \o MonthsOf(ms \ {m})

get_spending_trends(h, u, months) ==
    /\ pc[h] = "idle"
    /\ LET end_date == Today
           start_date == DaysBefore(Today, months * 30)
           spent == OfType(TransactionsBetween(u, start_date, end_date), "expense")
           groups == MonthsOf({transactions[t].transaction_date \div 100 : t \in spent})
       IN  Respond(h, [Reply("trends", u, 0, 200, "") EXCEPT
              !.months = months,
              !.body = [NoBody EXCEPT !.trends =
                 [k \in DOMAIN groups |->
                     [year |-> groups[k] \div 100,
                      month |-> groups[k] % 100,
                      total |-> SumAmounts(transactions,
                                    {t \in spent :
                                        transactions[t].transaction_date \div 100
                                            = groups[k]})]]]])
    /\ UNCHANGED <<store, history>>

\* ---------------------------------------------------- ledgers that are read
\* the categories of a ledger: a second expense category for user 1
LedgerCategories ==
    [c \in 1..5 |->
        IF c = 5
        THEN [user_id |-> 1, category_type |-> "expense", is_active |-> TRUE]
        ELSE DefaultCategories[c]]

\* the transactions a ledger may hold: on the first and the last day of the
\* current month, on the days before and after it, of both types, of two
\* categories, on three accounts
LedgerRows ==
    <<[account_id |-> 1, category_id |-> 1, amount |-> 100, description |-> "lunch",
       transaction_type |-> "expense", transaction_date |-> 20240401],
      [account_id |-> 1, category_id |-> 5, amount |-> 40, description |-> "lunch",
       transaction_type |-> "expense", transaction_date |-> 20240430],
      [account_id |-> 1, category_id |-> 1, amount |-> 40, description |-> "lunch",
       transaction_type |-> "expense", transaction_date |-> 20240331],
      [account_id |-> 1, category_id |-> 1, amount |-> 100, description |-> "lunch",
       transaction_type |-> "expense", transaction_date |-> 20240501],
      [account_id |-> 1, category_id |-> 2, amount |-> 100, description |-> "lunch",
       transaction_type |-> "income", transaction_date |-> 20240410],
      [account_id |-> 2, category_id |-> 1, amount |-> 40, description |-> "lunch",
       transaction_type |-> "expense", transaction_date |-> 20240410],
      [account_id |-> 3, category_id |-> 3, amount |-> 100, description |-> "lunch",
       transaction_type |-> "expense", transaction_date |-> 20240410],
      [account_id |-> 3, category_id |-> 4, amount |-> 40, description |-> "lunch",
       transaction_type |-> "income", transaction_date |-> 20240410]>>

\* the accounts of a ledger: two of user 1 and one of user 2, each active or
\* not
LedgerAccounts(active) ==
    [a \in 1..3 |->
        [user_id |-> IF a = 3 THEN 2 ELSE 1,
         balance |-> CASE a = 1 -> 1000 [] a = 2 -> 250 [] OTHER -> 0 - 75,
         is_active |-> a \in active]]

\* the rows of LedgerRows picked, with the ids 1, 2, ... in the order of
\* LedgerRows
RECURSIVE Stored(_)
Stored(picked) ==
    IF picked = {} THEN <<>>
    ELSE LET k == CHOOSE x \in picked : \A y \in picked : x >= y
         IN  Append(Stored(picked \ {k}), LedgerRows[k])

\* a ledger as a sequence of requests has left it: some accounts, at most
\* MaxLedger transactions
ReadInit ==
    /\ \E active \in SUBSET (1..3) : accounts = LedgerAccounts(active)
    /\ categories = LedgerCategories
    /\ \E picked \in SUBSET DOMAIN LedgerRows :
          /\ Cardinality(picked) <= MaxLedger
          /\ transactions = Stored(picked)
    /\ next_tid = Len(transactions) + 1
    /\ initial_balance =
          [a \in DOMAIN accounts |->
              accounts[a].balance
                - SumAmounts(transactions,
                      {t \in DOMAIN transactions :
                          /\ transactions[t].account_id = a
                          /\ transactions[t].transaction_type = "income"})
                + SumAmounts(transactions,
                      {t \in DOMAIN transactions :
                          /\ transactions[t].account_id = a
                          /\ transactions[t].transaction_type = "expense"})]
    /\ created_by = [t \in DOMAIN transactions |->
                        accounts[transactions[t].account_id].user_id]
    /\ before_create = NoCreate
    /\ pc = [h \in Handlers |-> "idle"]
    /\ sess = [h \in Handlers |-> NoSess]
    /\ resp = [h \in Handlers |-> NoResp]
    /\ db_manager = NewManager

\* the error a read handler answers when a query raises
ReadFailureMessage(op) ==
    CASE op = "dashboard" -> "Failed to load dashboard data"
      [] op = "list" -> "Failed to fetch transactions"
      [] OTHER -> "Failed to fetch analytics data"

\* a query of a read handler raises (the database is unreachable): the except
\* branch answers 500
query_fails(h, u, op) ==
    /\ pc[h] = "idle"
    /\ Refuse(h, op, u, 0, 500, ReadFailureMessage(op))

GetDashboardData(h, in) ==
    \E u \in in.users : get_dashboard_data(h, u)

GetSpendingTrends(h, in) ==
    \E u \in in.users, months \in {1, 6} : get_spending_trends(h, u, months)

QueryFails(h, in) ==
    \E u \in in.users, op \in {"dashboard", "list", "trends"} :
        query_fails(h, u, op)

ReadNext ==
    \/ GetDashboardData(1, Requests)
    \/ QueryFails(1, Requests)
    \/ GetSpendingTrends(1, Requests)
    \/ GetTransactions(1, Requests)
    \/ Teardown(1)

ReadSpec == ReadInit /\ [][ReadNext]_vars

\* ------------------------------------------- users with several accounts
\* user 1 has opened two accounts and user 2 one, all active; no transaction
\* has been recorded
FrameInit ==
    /\ accounts = LedgerAccounts(1..3)
    /\ categories = LedgerCategories
    /\ transactions = <<>>
    /\ next_tid = 1
    /\ initial_balance = [a \in 1..3 |-> LedgerAccounts(1..3)[a].balance]
    /\ created_by = <<>>
    /\ before_create = NoCreate
    /\ pc = [h \in Handlers |-> "idle"]
    /\ sess = [h \in Handlers |-> NoSess]
    /\ resp = [h \in Handlers |-> NoResp]
    /\ db_manager = NewManager

\* requests served one at a time: an expense on the first account of user 1,
\* an income on the second, an expense on the account of user 2, and patches
\* of the amount
FrameRequests ==
    [users |-> Users,
     create |-> {[account_id |-> N(1), category_id |-> N(1),
                  amount |-> N(100), description |-> S("lunch"),
                  transaction_type |-> S("expense"),
                  transaction_date |-> Absent, csrf_token |-> TRUE],
                 [account_id |-> N(2), category_id |-> N(2),
                  amount |-> S("40"), description |-> S("lunch"),
                  transaction_type |-> S("income"),
                  transaction_date |-> Absent, csrf_token |-> TRUE],
                 [account_id |-> N(3), category_id |-> N(3),
                  amount |-> N(100), description |-> S("lunch"),
                  transaction_type |-> S("expense"),
                  transaction_date |-> Absent, csrf_token |-> TRUE]},
     patch |-> {[NoPatch EXCEPT !.amount = S("40")],
                [NoPatch EXCEPT !.amount = N(100)]}]

FrameNext == Step(1, FrameRequests)

FrameSpec == FrameInit /\ [][FrameNext]_vars

\* ---------------------------------------------------------- DatabaseManager
\* src/model.py with the PostgreSQL schema: with SQLite init_database raises
\* (cursor.execute is given several statements at once), so no DatabaseManager
\* exists there.
RowIds == 1..MaxRows


\* the Transaction objects the callers pass
TransactionObjects ==
    {[amount |-> 500, category |-> "Salary", transaction_type |-> "income",
      date |-> 20240305],
     [amount |-> 120, category |-> "Shopping", transaction_type |-> "expense",
      date |-> 20240310],
     [amount |-> 30, category |-> "Shopping", transaction_type |-> "expense",
      date |-> 20240401],
     [amount |-> 60, category |-> "Dining", transaction_type |-> "expense",
      date |-> 20240320],
     [amount |-> 0 - 50, category |-> "Shopping", transaction_type |-> "expense",
      date |-> 20240310],
     [amount |-> 0, category |-> "Shopping", transaction_type |-> "expense",
      date |-> 20240310],
     [amount |-> 40, category |-> "Shopping", transaction_type |-> "transfer",
      date |-> 20240310]}

\* the CHECK constraints of the transactions table
TableChecks(t) ==
    /\ t.amount # 0
    /\ t.transaction_type \in {"income", "expense"}
    /\ t.amount > 0 - 999999999 /\ t.amount < 999999999

\* the caller has taken the result of the latest call
Return ==
    /\ db_manager.ret.op # ""
    /\ db_manager' = [db_manager EXCEPT !.ret = NoRet]
    /\ UNCHANGED <<store, pc, sess, resp, history>>

\* a bug: the connection is committed although the body or the commit raised
get_connection_committing(body_raises, commit_ok) ==
    [opened |-> TRUE, committed |-> TRUE, rolled_back |-> FALSE,
     closed |-> TRUE]

\* get_connection around a body: conn.commit() when the body has finished
\* without an exception; when the body or the commit raises, conn.rollback()
\* and the exception is raised again; conn.close() in both cases
get_connection(body_raises, commit_ok) ==
    [opened |-> TRUE,
     committed |-> ~body_raises /\ commit_ok,
     rolled_back |-> body_raises \/ ~commit_ok,
     closed |-> TRUE]

\* add_transaction: one INSERT in a connection of its own. The id sequence
\* advances whether or not the row passes the CHECK constraints; created_at is
\* CURRENT_TIMESTAMP, which may not have advanced since the previous INSERT.
\* A failed INSERT or a failed commit raises, get_connection rolls back.
DatabaseManager_add_transaction(transaction) ==
    /\ db_manager.ret.op = ""
    /\ db_manager.next_id <= MaxRows
    /\ \E created_at \in {db_manager.now, db_manager.now + 1}, commit_ok \in BOOLEAN :
          /\ created_at > 0
          /\ LET conn == get_connection(~TableChecks(transaction), commit_ok) IN
             db_manager' =
                IF conn.committed
                THEN [rows |-> [i \in DOMAIN db_manager.rows \cup {db_manager.next_id} |->
                                    IF i = db_manager.next_id
                                    THEN [amount |-> transaction.amount,
                                          category |-> transaction.category,
                                          transaction_type |-> transaction.transaction_type,
                                          date |-> transaction.date,
                                          created_at |-> created_at]
                                    ELSE db_manager.rows[i]],
                      budgets |-> db_manager.budgets,
                      next_id |-> db_manager.next_id + 1,
                      now |-> created_at,
                      ret |-> [NoRet EXCEPT !.op = "add_transaction",
                                            !.id = db_manager.next_id,
                                            !.conn = conn]]
                ELSE [db_manager EXCEPT
                         !.next_id = @ + 1,
                         !.now = created_at,
                         !.ret = [NoRet EXCEPT !.op = "add_transaction",
                                               !.raised = TRUE,
                                               !.conn = conn]]
    /\ UNCHANGED <<store, pc, sess, resp, history>>

\* the WHERE clause get_transactions builds: an argument that is None, empty
\* or 0 adds no condition
Selected(args) ==
    {i \in DOMAIN db_manager.rows :
        LET r == db_manager.rows[i]
        IN  /\ args.category # "" => r.category = args.category
            /\ args.transaction_type # "" =>
                   r.transaction_type = args.transaction_type
            /\ args.date_from # 0 => r.date >= args.date_from
            /\ args.date_to # 0 => r.date <= args.date_to}

\* ORDER BY date DESC, created_at DESC: the sequences of the rows in ids that
\* the database may produce; rows equal in both keys come in any order
Orderings(ids) ==
    {o \in [1..Cardinality(ids) -> ids] :
        /\ \A i, j \in DOMAIN o : i # j => o[i] # o[j]
        /\ \A i, j \in DOMAIN o :
              i < j =>
                 LET a == db_manager.rows[o[i]]
                     b == db_manager.rows[o[j]]
                 IN  \/ a.date > b.date
                     \/ a.date = b.date /\ a.created_at >= b.created_at}

\* LIMIT limit OFFSET offset
Page(o, limit, offset) ==
    [k \in 1..(IF Len(o) - offset < 0 THEN 0
               ELSE IF Len(o) - offset < limit THEN Len(o) - offset
               ELSE limit) |-> o[k + offset]]

\* the argument lists of get_transactions the callers use
ListArgs ==
    {DefaultArgs,
     [DefaultArgs EXCEPT !.limit = 1],
     [DefaultArgs EXCEPT !.limit = 1, !.offset = 1],
     [DefaultArgs EXCEPT !.category = "Shopping"],
     [DefaultArgs EXCEPT !.transaction_type = "expense", !.date_from = 20240310],
     [DefaultArgs EXCEPT !.date_to = 20240310]}

DatabaseManager_get_transactions(args) ==
    /\ db_manager.ret.op = ""
    /\ \E o \in Orderings(Selected(args)) :
          db_manager' = [db_manager EXCEPT !.ret =
              [NoRet EXCEPT !.op = "get_transactions", !.args = args,
                            !.list = Page(o, args.limit, args.offset),
                            !.conn = get_connection(FALSE, TRUE)]]
    /\ UNCHANGED <<store, pc, sess, resp, history>>

\* get_monthly_summary: SUM over no row is NULL, and float(None) raises
\* TypeError; otherwise the sums and counts of the month, net_savings and
\* savings_rate (0 unless total_income > 0)
DatabaseManager_get_monthly_summary(year, month) ==
    /\ db_manager.ret.op = ""
    /\ LET rows == db_manager.rows
           inmonth == {i \in DOMAIN rows :
                          Year(rows[i].date) = year /\ Month(rows[i].date) = month}
           income == {i \in inmonth : rows[i].transaction_type = "income"}
           expense == {i \in inmonth : rows[i].transaction_type = "expense"}
           total_income == SumAmounts(rows, income)
           total_expense == SumAmounts(rows, expense)
           net_savings == total_income - total_expense
           called == [NoRet EXCEPT !.op = "get_monthly_summary",
                                   !.year = year, !.month = month]
       IN  db_manager' = [db_manager EXCEPT !.ret =
              IF inmonth = {}
              THEN [called EXCEPT !.raised = TRUE,
                                  !.conn = get_connection(TRUE, TRUE)]
              ELSE [called EXCEPT !.conn = get_connection(FALSE, TRUE),
                                  !.summary =
                      [total_income |-> total_income,
                       total_expense |-> total_expense,
                       income_count |-> Cardinality(income),
                       expense_count |-> Cardinality(expense),
                       net_savings |-> net_savings,
                       savings_rate |->
                           IF total_income > 0
                           THEN [num |-> net_savings * 100, den |-> total_income]
                           ELSE [num |-> 0, den |-> 1]]]]
    /\ UNCHANGED <<store, pc, sess, resp, history>>

\* delete_transaction: DELETE ... WHERE id = ?, returns rowcount > 0; a
\* failed commit raises and get_connection rolls the DELETE back
DatabaseManager_delete_transaction(transaction_id) ==
    /\ db_manager.ret.op = ""
    /\ \E commit_ok \in BOOLEAN :
          LET conn == get_connection(FALSE, commit_ok)
              called == [NoRet EXCEPT !.op = "delete_transaction",
                                      !.id = transaction_id, !.conn = conn]
          IN  db_manager' =
                IF conn.committed
                THEN [db_manager EXCEPT
                         !.rows = [i \in DOMAIN @ \ {transaction_id} |-> @[i]],
                         !.ret = [called EXCEPT !.deleted =
                                     transaction_id \in DOMAIN db_manager.rows]]
                ELSE [db_manager EXCEPT !.ret = [called EXCEPT !.raised = TRUE]]
    /\ UNCHANGED <<store, pc, sess, resp, history>>

\* get_spending_by_category: from_date is computed before the connection is
\* opened: the first day of the current month when days is 30, otherwise
\* today with its day of the month replaced by day - days + 1, which raises
\* ValueError when that is below 1. The SELECT takes the rows dated from
\* from_date on (there is no upper bound) and groups them by category.
DatabaseManager_get_spending_by_category(days) ==
    /\ db_manager.ret.op = ""
    /\ LET rows == db_manager.rows
           day == (Today % 100) - days + 1
           from_date == IF days = 30 THEN (Today \div 100) * 100 + 1
                        ELSE (Today \div 100) * 100 + day
           found == {i \in DOMAIN rows : rows[i].date >= from_date}
           called == [NoRet EXCEPT !.op = "get_spending_by_category",
                                   !.days = days]
       IN  db_manager' = [db_manager EXCEPT !.ret =
              IF days # 30 /\ day < 1
              THEN [called EXCEPT !.raised = TRUE]
              ELSE [called EXCEPT
                      !.conn = get_connection(FALSE, TRUE),
                      !.spending =
                         [c \in {rows[i].category : i \in found} |->
                             LET of_c == {i \in found : rows[i].category = c}
                             IN  [total_expense |->
                                     SumAmounts(rows, {i \in of_c :
                                         rows[i].transaction_type = "expense"}),
                                  total_income |->
                                     SumAmounts(rows, {i \in of_c :
                                         rows[i].transaction_type = "income"}),
                                  transaction_count |-> Cardinality(of_c)]]]]
    /\ UNCHANGED <<store, pc, sess, resp, history>>

\* the Budget objects the callers pass
BudgetObjects ==
    {[category |-> "Shopping", amount |-> 200, period |-> "monthly"],
     [category |-> "Shopping", amount |-> 300, period |-> "yearly"],
     [category |-> "Shopping", amount |-> 0, period |-> "monthly"],
     [category |-> "Dining", amount |-> 50, period |-> "daily"]}

\* the CHECK constraints of the budgets table
BudgetChecks(b) ==
    /\ b.amount > 0
    /\ b.period \in {"weekly", "monthly", "yearly"}

\* add_budget: one INSERT ... ON CONFLICT (category) DO UPDATE in a connection
\* of its own: the budget of the category is set or replaced. A failed
\* statement or a failed commit raises, get_connection rolls back. The id
\* returned is left out.
DatabaseManager_add_budget(budget) ==
    /\ db_manager.ret.op = ""
    /\ \E commit_ok \in BOOLEAN :
          LET conn == get_connection(~BudgetChecks(budget), commit_ok)
              called == [NoRet EXCEPT !.op = "add_budget", !.conn = conn]
          IN  db_manager' =
                IF conn.committed
                THEN [db_manager EXCEPT
                         !.budgets =
                            [c \in DOMAIN @ \cup {budget.category} |->
                                IF c = budget.category
                                THEN [amount |-> budget.amount,
                                      period |-> budget.period]
                                ELSE @[c]],
                         !.ret = called]
                ELSE [db_manager EXCEPT !.ret = [called EXCEPT !.raised = TRUE]]
    /\ UNCHANGED <<store, pc, sess, resp, history>>

AddTransaction ==
    \E transaction \in TransactionObjects :
        DatabaseManager_add_transaction(transaction)

ListTransactions ==
    \E args \in ListArgs : DatabaseManager_get_transactions(args)

MonthlySummary ==
    \E year \in {2024}, month \in {3, 4, 5} :
        DatabaseManager_get_monthly_summary(year, month)

DeleteRow ==
    \E transaction_id \in RowIds :
        DatabaseManager_delete_transaction(transaction_id)

SpendingByCategory ==
    \E days \in {7, 15, 30} : DatabaseManager_get_spending_by_category(days)

AddBudget ==
    \E budget \in BudgetObjects : DatabaseManager_add_budget(budget)

ManagerNext ==
    \/ AddTransaction
    \/ SpendingByCategory
    \/ AddBudget
    \/ ListTransactions
    \/ MonthlySummary
    \/ DeleteRow
    \/ Return

ManagerSpec == Init /\ [][ManagerNext]_vars

\* ------------------------------------------------------------------ ledger
\* the signed effect the specification gives a transaction on its account
Effect(txn) ==
    IF txn.transaction_type = "income" THEN txn.amount ELSE 0 - txn.amount

RECURSIVE SumEffects(_, _)
SumEffects(txns, ids) ==
    IF ids = {} THEN 0
    ELSE LET t == CHOOSE x \in ids : TRUE
         IN  Effect(txns[t]) + SumEffects(txns, ids \ {t})

\* the sum of the signed effects of the rows of txns on account a
EffectsOn(txns, a) ==
    SumEffects(txns, {t \in DOMAIN txns : txns[t].account_id = a})

Consistent ==
    \A a \in DOMAIN accounts :
        accounts[a].balance = initial_balance[a] + EffectsOn(transactions, a)

\* C1: whenever no operation is in progress, after any sequence of create,
\* update and delete served one at a time, every account's balance is its
\* opening balance plus the amounts of its income transactions minus the
\* amounts of its expense transactions.
C1_BalanceInvariant == pc[1] \in {"idle", "done"} => Consistent

\* a delete has been served and an account's balance still differs from its
\* opening balance by the transaction left on it
C1_Witness ==
    /\ resp[1].op = "delete" /\ resp[1].status = 200
    /\ \E t \in DOMAIN transactions :
          accounts[transactions[t].account_id].balance
              # initial_balance[transactions[t].account_id]

\* C2: two handlers that each create an expense of 50 on the account opened
\* at 1000 leave the balance at 900, never at 950.
C2_ConcurrentCreates ==
    ( /\ \A h \in {1, 2} : resp[h].op = "create" /\ resp[h].status = 201
      /\ resp[1].tid # resp[2].tid
      /\ initial_balance[1] = 1000
      /\ DOMAIN transactions = {1, 2}
      /\ \A t \in {1, 2} : /\ transactions[t].account_id = 1
                           /\ transactions[t].amount = 50
                           /\ transactions[t].transaction_type = "expense" )
    => accounts[1].balance = 900

\* C3: whatever the interleaving of the handlers' steps, once every
\* mutation has completed the balance reflects all of them: no update to a
\* balance is lost.
C3_NoLostUpdate ==
    (\A h \in Handlers : pc[h] \in {"idle", "done"}) => Consistent

\* C4: a mutation is all or nothing: the store changes only in the one step
\* that commits a successful operation, and in that step every account's
\* balance moves by exactly the change of the effects of its transaction
\* rows; a step that answers with a failure leaves the transaction rows and
\* the balances as they were before the operation started.
C4_AllOrNothing ==
    [][ /\ store' # store =>
              /\ pc[1] = "commit" /\ pc'[1] = "done"
              /\ resp'[1].status \in {200, 201}
              /\ \A a \in DOMAIN accounts :
                    accounts'[a].balance - accounts[a].balance
                        = EffectsOn(transactions', a) - EffectsOn(transactions, a)
        /\ (pc'[1] = "done" /\ pc[1] # "done" /\ resp'[1].status >= 400)
              => store' = store ]_vars

\* a delete failed at its commit and the transaction is still stored
C4_Witness ==
    /\ resp[1].op = "delete" /\ resp[1].status = 500
    /\ resp[1].tid \in DOMAIN transactions

\* C5: creating a transaction and then deleting it restores every account's
\* balance and the set of transactions to what they were before the create.
C5_RoundTrip ==
    ( /\ resp[1].op = "delete" /\ resp[1].status = 200
      /\ before_create.tid = resp[1].tid )
    => /\ accounts = before_create.accounts
       /\ transactions = before_create.transactions

\* the transaction created last, on a ledger that was not empty, has been
\* deleted again
C5_Witness ==
    /\ resp[1].op = "delete" /\ resp[1].status = 200
    /\ before_create.tid = resp[1].tid
    /\ before_create.transactions # <<>>

\* the step that commits an update
UpdateCommits ==
    /\ pc[1] = "commit" /\ sess[1].op = "update"
    /\ pc'[1] = "done" /\ resp'[1].status = 200

\* an update of a stored 100 expense whose patch carries the amount 40 and
\* the direction income
ExpenseToIncomePatch ==
    /\ transactions[sess[1].tid].amount = 100
    /\ transactions[sess[1].tid].transaction_type = "expense"
    /\ sess[1].patch.amount = S("40")
    /\ sess[1].patch.transaction_type = S("income")

\* C6 as stated: updating a 100 expense to a 40 income on an account with
\* balance B yields B + 100 + 40.
C6_DirectionChangingUpdate ==
    [][ UpdateCommits /\ ExpenseToIncomePatch =>
          LET a == transactions[sess[1].tid].account_id
          IN  accounts'[a].balance = accounts[a].balance + 100 + 40 ]_vars

\* C6: an update cannot change a transaction's direction: patching a 100
\* expense with the amount 40 and the direction income on an account with
\* balance B yields B + 100 - 40, and the transaction stays an expense.
C6_UpdateKeepsDirection ==
    [][ UpdateCommits /\ ExpenseToIncomePatch =>
          LET a == transactions[sess[1].tid].account_id
          IN  /\ accounts'[a].balance = accounts[a].balance + 100 - 40
              /\ transactions'[sess[1].tid].transaction_type = "expense"
              /\ transactions'[sess[1].tid].amount = 40 ]_vars

\* an update of a 100 expense with the amount 40 and the direction income
\* has been served
C6_Witness ==
    /\ resp[1].op = "update" /\ resp[1].status = 200
    /\ resp[1].old.amount = 100 /\ resp[1].old.transaction_type = "expense"
    /\ resp[1].patch.amount = S("40")
    /\ resp[1].patch.transaction_type = S("income")

\* C7: an update of the amount from a to a' moves the account's balance by
\* a' - a for an income and by a - a' for an expense and stores a'; an update
\* whose patch has no amount leaves the balance unchanged.
C7_AmountPatch ==
    [][ UpdateCommits =>
          LET row == transactions[sess[1].tid]
              a == row.account_id
              moved == accounts'[a].balance - accounts[a].balance
              new == DecimalOf(sess[1].patch.amount).val
          IN  IF sess[1].patch.amount.t # "absent"
              THEN /\ moved = IF row.transaction_type = "income"
                              THEN new - row.amount ELSE row.amount - new
                   /\ transactions'[sess[1].tid].amount = new
              ELSE moved = 0 ]_vars

\* the amount of an income has been updated from 100 to 40
C7_Witness ==
    /\ resp[1].op = "update" /\ resp[1].status = 200
    /\ resp[1].old.amount = 100 /\ resp[1].txn.amount = 40
    /\ resp[1].old.transaction_type = "income"

\* the step is the serving of a create request: the handler leaves idle with
\* a create in its session or in its response
ServesCreate ==
    pc[1] = "idle" /\ (sess'[1].op = "create" \/ resp'[1].op = "create")

\* the step answers a validation error and persists nothing
Rejected ==
    pc'[1] = "done" /\ resp'[1].status = 400 /\ store' = store

\* the request names a category whose type is not its transaction_type
TypeMismatch(data) ==
    /\ data.category_id.n \in DOMAIN categories
    /\ categories[data.category_id.n].category_type # data.transaction_type.s

\* C8: a create whose category has a type different from the request's
\* transaction_type is answered with a validation error, and no transaction
\* is persisted.
C8_CategoryMismatchRejected ==
    [][ ServesCreate =>
           \/ Rejected
           \/ \A u \in Users, data \in TransactionData :
                  data.csrf_token /\ TypeMismatch(data)
                      => ~create_transaction(1, u, data) ]_vars

\* a create has been refused for its category's type
C8_Witness ==
    /\ resp[1].op = "create" /\ resp[1].status = 400
    /\ resp[1].error = "Category type does not match transaction type"

\* every stored transaction references a stored account and a stored
\* category, both owned by the user who created it
ReferencesOwned ==
    \A t \in DOMAIN transactions :
        /\ transactions[t].account_id \in DOMAIN accounts
        /\ transactions[t].category_id \in DOMAIN categories
        /\ accounts[transactions[t].account_id].user_id = created_by[t]
        /\ categories[transactions[t].category_id].user_id = created_by[t]

\* the request names an account or a category that does not exist or that
\* user u does not own
ForeignReference(u, data) ==
    \/ data.account_id.n \notin DOMAIN accounts
    \/ data.category_id.n \notin DOMAIN categories
    \/ accounts[data.account_id.n].user_id # u
    \/ categories[data.category_id.n].user_id # u

\* C9: every persisted transaction references an existing account and an
\* existing category owned by the user who created it, and a create that
\* names a nonexistent or foreign account or category is rejected without
\* persisting anything.
C9_ReferentialIntegrity ==
    /\ []ReferencesOwned
    /\ [][ ServesCreate =>
              \/ Rejected
              \/ \A u \in Users, data \in TransactionData :
                     data.csrf_token /\ ForeignReference(u, data)
                         => ~create_transaction(1, u, data) ]_vars

\* with a transaction stored, a create has been refused for its account
C9_Witness ==
    /\ resp[1].op = "create" /\ resp[1].status = 400
    /\ resp[1].error = "Invalid account"
    /\ transactions # <<>>

\* the owner of a stored transaction: the owner of its account
OwnerOf(t) == accounts[transactions[t].account_id].user_id

\* the user and the transaction of the update or delete that the step
\* begins or continues
Mutating(u, t) ==
    \/ /\ pc'[1] \in {"load_account", "commit"}
       /\ sess'[1].op \in {"update", "delete"}
       /\ sess'[1].user_id = u /\ sess'[1].tid = t
    \/ /\ pc'[1] = "done" /\ pc[1] # "done"
       /\ resp'[1].op \in {"update", "delete"}
       /\ resp'[1].user_id = u /\ resp'[1].tid = t

\* C10: an update or a delete issued by a user on another user's
\* transaction is answered 404 and leaves that transaction and every
\* balance unchanged, and a list issued by a user returns only the user's
\* own transactions.
C10_OwnerScoping ==
    [][ /\ \A u \in Users, t \in DOMAIN transactions :
              Mutating(u, t) /\ OwnerOf(t) # u
                  => /\ pc[1] = "idle" /\ pc'[1] = "done"
                     /\ resp'[1].status = 404
                     /\ store' = store
        /\ (pc'[1] = "done" /\ pc[1] # "done" /\ resp'[1].op = "list")
              => /\ \A t \in resp'[1].items :
                       t \in DOMAIN transactions /\ OwnerOf(t) = resp'[1].user_id
                 /\ store' = store ]_vars

\* a delete of a stored transaction of another user has been answered 404
C10_Witness ==
    /\ resp[1].op = "delete" /\ resp[1].status = 404
    /\ resp[1].tid \in DOMAIN transactions
    /\ OwnerOf(resp[1].tid) # resp[1].user_id

\* C11 as stated: every persisted transaction, in the ledger of the request
\* handlers and in the DatabaseManager's table, has an amount greater than 0
\* and the type income or expense.
C11_PositiveAmounts ==
    /\ \A t \in DOMAIN transactions :
          /\ transactions[t].amount > 0
          /\ transactions[t].transaction_type \in {"income", "expense"}
    /\ \A i \in DOMAIN db_manager.rows :
          /\ db_manager.rows[i].amount > 0
          /\ db_manager.rows[i].transaction_type \in {"income", "expense"}

\* C12: every persisted transaction's transaction_type is the category_type
\* of the category it references, after any sequence of create, update and
\* delete requests.
C12_TypeMatchesCategory ==
    \A t \in DOMAIN transactions :
        /\ transactions[t].category_id \in DOMAIN categories
        /\ transactions[t].transaction_type
               = categories[transactions[t].category_id].category_type

\* an expense has been updated with a patch that names the type income, and
\* is stored
C12_Witness ==
    /\ resp[1].op = "update" /\ resp[1].status = 200
    /\ resp[1].patch.transaction_type = S("income")
    /\ resp[1].tid \in DOMAIN transactions
    /\ categories[transactions[resp[1].tid].category_id].category_type = "expense"

\* C13: an update changes nothing but the amount, the description and the
\* transaction_date of its transaction and the balance of that transaction's
\* account: the transaction's id, transaction_type, account and category,
\* every other transaction, every other account and the categories are the
\* same after the update as before it.
C13_UpdateFrame ==
    [][ UpdateCommits =>
          LET tid == sess[1].tid
              a == transactions[tid].account_id
          IN  /\ DOMAIN transactions' = DOMAIN transactions
              /\ transactions'[tid].transaction_type
                     = transactions[tid].transaction_type
              /\ transactions'[tid].account_id = transactions[tid].account_id
              /\ transactions'[tid].category_id = transactions[tid].category_id
              /\ \A t \in DOMAIN transactions \ {tid} :
                    transactions'[t] = transactions[t]
              /\ \A b \in DOMAIN accounts \ {a} : accounts'[b] = accounts[b]
              /\ accounts'[a] = [accounts[a] EXCEPT !.balance = accounts'[a].balance]
              /\ categories' = categories
              /\ next_tid' = next_tid ]_vars

\* an update has changed the description and the date of a transaction
C13_Witness ==
    /\ resp[1].op = "update" /\ resp[1].status = 200
    /\ resp[1].txn.transaction_date # resp[1].old.transaction_date
    /\ resp[1].txn.description # resp[1].old.description

\* the step is the serving of an update request
ServesUpdate ==
    pc[1] = "idle" /\ (sess'[1].op = "update" \/ resp'[1].op = "update")

\* a patch with a valid new amount and a malformed date
AmountWithBadDate(data) ==
    /\ ~data.is_null
    /\ DecimalOf(data.amount).ok /\ DecimalOf(data.amount).val > 0
    /\ data.description.t \in {"absent", "str"}
    /\ data.transaction_date.t = "str"
    /\ data.transaction_date.s # "2024-03-05"

\* C14: a create or an update answered with a validation error leaves the
\* transactions and every balance unchanged, and an update of one's own
\* transaction whose patch has a valid new amount and a malformed date is
\* answered with a validation error.
C14_RejectionPersistsNothing ==
    [][ /\ ( /\ pc'[1] = "done" /\ pc[1] # "done"
             /\ resp'[1].op \in {"create", "update"}
             /\ resp'[1].status = 400 ) => store' = store
        /\ ServesUpdate =>
              \/ Rejected
              \/ \A u \in Users, t \in DOMAIN transactions, data \in PatchData :
                    AmountWithBadDate(data) /\ OwnerOf(t) = u
                        => ~update_transaction(1, u, t, data) ]_vars

\* an update of a stored transaction has been refused for its date
C14_Witness ==
    /\ resp[1].op = "update" /\ resp[1].status = 400
    /\ resp[1].error = "Invalid date format"
    /\ resp[1].tid \in DOMAIN transactions
    /\ OwnerOf(resp[1].tid) = resp[1].user_id

\* C15: an update or a delete of an id that matches no persisted transaction
\* is answered not found and leaves the transactions and every balance
\* unchanged; so the second of two deletes of one transaction reverses
\* nothing.
C15_NotFound ==
    [][ \A u \in Users, t \in TxnIds \ DOMAIN transactions :
           Mutating(u, t) =>
              /\ pc[1] = "idle" /\ pc'[1] = "done"
              /\ resp'[1].status = 404
              /\ store' = store ]_vars

\* DatabaseManager.delete_transaction, when it does not raise, returns False
\* for an id that is not in its table, True otherwise, and removes no other row
ManagerDeleteReturnsFound ==
    [][ (/\ db_manager'.ret.op = "delete_transaction" /\ db_manager.ret.op = ""
         /\ ~db_manager'.ret.raised) =>
          LET id == db_manager'.ret.id
          IN  /\ db_manager'.ret.deleted = (id \in DOMAIN db_manager.rows)
              /\ \A i \in DOMAIN db_manager.rows \ {id} :
                    i \in DOMAIN db_manager'.rows
                    /\ db_manager'.rows[i] = db_manager.rows[i]
              /\ id \notin DOMAIN db_manager'.rows ]_vars

\* a transaction that was deleted has been deleted a second time
C15_Witness ==
    /\ resp[1].op = "delete" /\ resp[1].status = 404
    /\ resp[1].tid \notin DOMAIN transactions
    /\ resp[1].tid < next_tid

\* C16 as stated: the page a list returns is in one order only, by date
\* descending and, among rows of one date, by creation order descending, also
\* when rows share both the date and the creation timestamp.
C16_DeterministicOrder ==
    db_manager.ret.op = "get_transactions" =>
        LET page == db_manager.ret.list
        IN  \A i, j \in DOMAIN page :
               i < j =>
                  LET a == db_manager.rows[page[i]]
                      b == db_manager.rows[page[j]]
                  IN  \/ a.date > b.date
                      \/ a.date = b.date /\ page[i] > page[j]

\* the rows of the DatabaseManager's table dated in the month
InMonth(year, month) ==
    {i \in DOMAIN db_manager.rows :
        /\ db_manager.rows[i].date >= year * 10000 + month * 100 + 1
        /\ db_manager.rows[i].date <= year * 10000 + month * 100 + 31}

RECURSIVE TotalOf(_, _)
\* the sum of the amounts of the rows in ids that have the given type
TotalOf(ids, type) ==
    IF ids = {} THEN 0
    ELSE LET i == CHOOSE x \in ids : TRUE
         IN  (IF db_manager.rows[i].transaction_type = type
              THEN db_manager.rows[i].amount ELSE 0) + TotalOf(ids \ {i}, type)

\* the summary is the month's: income and expense summed separately, their
\* difference, and the difference as a percentage of the income, 0 when the
\* income is 0
SummaryOfMonth(ret) ==
    LET ids == InMonth(ret.year, ret.month)
        income == TotalOf(ids, "income")
        expense == TotalOf(ids, "expense")
    IN  /\ ~ret.raised
        /\ ret.summary.total_income = income
        /\ ret.summary.total_expense = expense
        /\ ret.summary.net_savings = income - expense
        /\ IF income = 0
           THEN ret.summary.savings_rate.num = 0
           ELSE ret.summary.savings_rate.num * income
                    = (income - expense) * 100 * ret.summary.savings_rate.den

\* C17 as stated: the monthly summary of any year and month returns the
\* income and the expense of exactly the transactions dated in that month,
\* net = income - expense and savings_rate = net / income as a percentage,
\* with savings_rate 0 whenever the income is 0.
C17_MonthlyTotals ==
    db_manager.ret.op = "get_monthly_summary" => SummaryOfMonth(db_manager.ret)

\* the monthly summary of a month in which a transaction is dated is as C17
\* states: the months for which it is not are those without any transaction
MonthlyTotalsOfUsedMonth ==
    ( /\ db_manager.ret.op = "get_monthly_summary"
      /\ InMonth(db_manager.ret.year, db_manager.ret.month) # {} )
    => SummaryOfMonth(db_manager.ret)

\* the specification's example: 500 income and 120 expense in March 2024 and
\* 30 expense in April give income 500, expense 120, net 380, rate 76
MonthlyTotalsExample ==
    /\ db_manager.ret.op = "get_monthly_summary"
    /\ db_manager.ret.month = 3
    /\ db_manager.ret.summary.total_income = 500
    /\ db_manager.ret.summary.total_expense = 120
    /\ db_manager.ret.summary.net_savings = 380
    /\ db_manager.ret.summary.savings_rate.num
           = 76 * db_manager.ret.summary.savings_rate.den
    /\ \E i \in DOMAIN db_manager.rows :
          db_manager.rows[i].amount = 30 /\ db_manager.rows[i].date = 20240401

\* C18 as stated: with no transaction in the requested period, an aggregate
\* operation completes without raising and returns zero totals or an empty
\* collection.
C18_EmptyAggregates ==
    /\ ( /\ db_manager.ret.op = "get_monthly_summary"
         /\ InMonth(db_manager.ret.year, db_manager.ret.month) = {} )
       => /\ ~db_manager.ret.raised
          /\ db_manager.ret.summary.total_income = 0
          /\ db_manager.ret.summary.total_expense = 0
          /\ db_manager.ret.summary.net_savings = 0
          /\ db_manager.ret.summary.savings_rate.num = 0
    /\ ( /\ db_manager.ret.op = "get_transactions"
         /\ db_manager.rows = <<>> )
       => ~db_manager.ret.raised /\ db_manager.ret.list = <<>>

RECURSIVE ActiveBalance(_, _)
\* the sum over the accounts in ids of what each contributes to user u's
\* total: its balance if it is u's and active, nothing otherwise
ActiveBalance(u, ids) ==
    IF ids = {} THEN 0
    ELSE LET a == CHOOSE x \in ids : TRUE
         IN  (IF accounts[a].user_id = u /\ accounts[a].is_active
              THEN accounts[a].balance ELSE 0) + ActiveBalance(u, ids \ {a})

\* C19: the dashboard's total_balance is the sum of the balances of exactly
\* the requesting user's active accounts: inactive accounts and other users'
\* accounts contribute nothing, and it is 0 when the user has no active
\* account.
C19_TotalBalance ==
    resp[1].op = "dashboard" /\ resp[1].status = 200 =>
        /\ resp[1].body.total_balance = ActiveBalance(resp[1].user_id, DOMAIN accounts)
        /\ (\A a \in DOMAIN accounts :
               accounts[a].user_id = resp[1].user_id => ~accounts[a].is_active)
           => resp[1].body.total_balance = 0

\* user 1, who has an active and an inactive account, asks for the dashboard
\* while the other user's account is active
C19_Witness ==
    /\ resp[1].op = "dashboard" /\ resp[1].user_id = 1
    /\ accounts[1].is_active /\ ~accounts[2].is_active /\ accounts[3].is_active
    /\ resp[1].body.total_balance = 1000

RECURSIVE AmountsOf(_)
\* the sum of the amounts of the transactions in ids
AmountsOf(ids) ==
    IF ids = {} THEN 0
    ELSE LET t == CHOOSE x \in ids : TRUE
         IN  transactions[t].amount + AmountsOf(ids \ {t})

\* user u's expense transactions of category c dated in the current month
ExpensesInWindow(u, c) ==
    {t \in DOMAIN transactions :
        /\ OwnerOf(t) = u
        /\ transactions[t].transaction_type = "expense"
        /\ transactions[t].category_id = c
        /\ transactions[t].transaction_date \div 100 = Today \div 100}

\* C20: the dashboard's breakdown of the current month's spending has, for
\* every category with an expense transaction of the user dated in the month,
\* the sum of the amounts of exactly those transactions, and no other entry;
\* the entries add up to the month's total expense, and income transactions
\* contribute nothing.
C20_CategoryBreakdown ==
    resp[1].op = "dashboard" /\ resp[1].status = 200 =>
        LET u == resp[1].user_id
            breakdown == resp[1].body.spending_by_category
        IN  /\ DOMAIN breakdown =
                  {c \in DOMAIN categories : ExpensesInWindow(u, c) # {}}
            /\ \A c \in DOMAIN breakdown :
                  breakdown[c] = AmountsOf(ExpensesInWindow(u, c))
            /\ resp[1].body.monthly_expenses =
                  AmountsOf(UNION {ExpensesInWindow(u, c) : c \in DOMAIN categories})

\* the breakdown has two categories while the user also has an income in
\* the month
C20_Witness ==
    /\ resp[1].op = "dashboard"
    /\ Cardinality(DOMAIN resp[1].body.spending_by_category) = 2
    /\ resp[1].body.monthly_income > 0

\* on a ledger without transactions the dashboard and the spending trends,
\* when their queries succeed, answer zero totals and empty collections
ControllerAggregatesOfEmptyLedger ==
    (transactions = <<>> /\ resp[1].op \in {"dashboard", "trends"}) =>
        /\ resp[1].status = 200 \/ resp[1].error = ReadFailureMessage(resp[1].op)
        /\ resp[1].body.monthly_income = 0
        /\ resp[1].body.monthly_expenses = 0
        /\ resp[1].body.net_income = 0
        /\ resp[1].body.spending_by_category = <<>>
        /\ resp[1].body.recent_transactions = {}
        /\ resp[1].body.trends = <<>>

\* --------------------------------------------------------- spending trends
\* the year * 100 + month that lies k months before the month ym
MonthBefore(ym, k) ==
    LET n == (ym \div 100) * 12 + (ym % 100) - 1 - k
    IN  (n \div 12) * 100 + (n % 12) + 1

\* the calendar months of the trailing window of n months: the current month
\* and the n - 1 months before it
TrailingMonths(n) == {MonthBefore(Today \div 100, k) : k \in 0..(n - 1)}

\* the months that have an entry in a trends body
TrendMonths(trends) ==
    {trends[k].year * 100 + trends[k].month : k \in DOMAIN trends}

\* C21: the spending trend holds an entry for every calendar month of the
\* trailing window of n_months months, a month without an expense transaction
\* included (with the total 0): no month of the window is omitted.
C21_EveryMonthOfWindow ==
    \A h \in Handlers :
        resp[h].op = "trends" /\ resp[h].status = 200
            => TrailingMonths(resp[h].months) \subseteq TrendMonths(resp[h].body.trends)

\* what get_spending_trends returns instead: the months of the window of
\* months * 30 days in which the user has an expense, and no other month
TrendsHoldMonthsWithExpense ==
    \A h \in Handlers :
        resp[h].op = "trends" /\ resp[h].status = 200
            => TrendMonths(resp[h].body.trends) =
                  {transactions[t].transaction_date \div 100 :
                      t \in {x \in DOMAIN transactions :
                              /\ accounts[transactions[x].account_id].user_id
                                    = resp[h].user_id
                              /\ transactions[x].transaction_type = "expense"
                              /\ transactions[x].transaction_date
                                    >= DaysBefore(Today, resp[h].months * 30)
                              /\ transactions[x].transaction_date <= Today}}

\* the expense rows of user u dated in the month ym, inside the window of the
\* request: from months * 30 days ago to today
ExpensesOfMonth(u, ym, months) ==
    {t \in DOMAIN transactions :
        /\ accounts[transactions[t].account_id].user_id = u
        /\ transactions[t].transaction_type = "expense"
        /\ transactions[t].transaction_date \div 100 = ym
        /\ transactions[t].transaction_date >= DaysBefore(Today, months * 30)
        /\ transactions[t].transaction_date <= Today}

C23_ReadsChangeNothing ==
    [][\A h \in Handlers :
          (/\ pc[h] = "idle"
           /\ pc'[h] = "done"
           /\ resp'[h].op \in {"dashboard", "list", "trends"})
              => /\ accounts' = accounts
                 /\ transactions' = transactions
                 /\ categories' = categories
                 /\ next_tid' = next_tid]_vars

\* a dashboard request has failed on a ledger that holds transactions and an
\* account that is not active
C23_Witness ==
    \E h \in Handlers :
        /\ resp[h].op = "dashboard"
        /\ resp[h].status = 500
        /\ transactions # <<>>
        /\ \E a \in DOMAIN accounts :
              accounts[a].user_id = resp[h].user_id /\ ~accounts[a].is_active

\* the reads of DatabaseManager (get_transactions, get_monthly_summary,
\* get_spending_by_category) leave its tables unchanged, whether they return
\* or raise
ManagerReadsChangeNoRow ==
    [][(/\ db_manager.ret.op = ""
        /\ db_manager'.ret.op \in {"get_transactions", "get_monthly_summary",
                                   "get_spending_by_category"})
          => /\ db_manager'.rows = db_manager.rows
             /\ db_manager'.budgets = db_manager.budgets
             /\ db_manager'.next_id = db_manager.next_id]_vars

\* ------------------------------------------------- get_spending_by_category
\* the rows dated within the last days days: from today minus days - 1
\* through today
RowsOfLastDays(days) ==
    {i \in DOMAIN db_manager.rows :
        /\ db_manager.rows[i].date >= DaysBefore(Today, days - 1)
        /\ db_manager.rows[i].date <= Today}

\* the result of get_spending_by_category is the expense and income totals,
\* by category, of the rows in ids
SpendingIsOf(spending, ids) ==
    LET rows == db_manager.rows IN
    /\ DOMAIN spending = {rows[i].category : i \in ids}
    /\ \A c \in DOMAIN spending :
          /\ spending[c].total_expense =
                SumAmounts(rows, {i \in ids : /\ rows[i].category = c
                                              /\ rows[i].transaction_type = "expense"})
          /\ spending[c].total_income =
                SumAmounts(rows, {i \in ids : /\ rows[i].category = c
                                              /\ rows[i].transaction_type = "income"})

\* C24: for every days >= 1, get_spending_by_category(days) does not raise and
\* returns the expense and income totals, by category, of exactly the
\* transactions dated within the last days days (from today minus days - 1
\* through today).
C24_SpendingOfLastDays ==
    (db_manager.ret.op = "get_spending_by_category" /\ db_manager.ret.days >= 1)
        => /\ ~db_manager.ret.raised
           /\ SpendingIsOf(db_manager.ret.spending, RowsOfLastDays(db_manager.ret.days))

\* what holds: when days is at most today's day of the month (and is not 30)
\* and no row is dated after today, the totals are those of the last days days
SpendingOfShortWindow ==
    (/\ db_manager.ret.op = "get_spending_by_category"
     /\ db_manager.ret.days >= 1
     /\ db_manager.ret.days <= Today % 100
     /\ \A i \in DOMAIN db_manager.rows : db_manager.rows[i].date <= Today)
        => /\ ~db_manager.ret.raised
           /\ SpendingIsOf(db_manager.ret.spending, RowsOfLastDays(db_manager.ret.days))

\* with days = 30 the window starts on the first day of the current month: a
\* row of the last 30 days dated in the previous month is left out
SpendingOfThirtyDaysIsMonthToDate ==
    (db_manager.ret.op = "get_spending_by_category" /\ db_manager.ret.days = 30)
        => /\ ~db_manager.ret.raised
           /\ SpendingIsOf(db_manager.ret.spending,
                 {i \in DOMAIN db_manager.rows :
                     db_manager.rows[i].date >= (Today \div 100) * 100 + 1})

\* ----------------------------------------------------------- get_connection
\* C25: in every use of get_connection the connection is committed exactly
\* when the body finishes without an exception, is rolled back, with the
\* exception raised to the caller, when the body (or the commit) raises, and is
\* closed in both cases; so an add_transaction, add_budget or
\* delete_transaction that fails writes nothing: the rows and the budgets stay
\* as they were.
C25_CommitOrRollback ==
    [][(db_manager.ret.op = "" /\ db_manager'.ret.conn.opened)
          => LET ret == db_manager'.ret
             IN  /\ ret.conn.closed
                 /\ ret.conn.committed <=> ~ret.raised
                 /\ ret.conn.rolled_back <=> ret.raised
                 /\ ret.raised => /\ db_manager'.rows = db_manager.rows
                                  /\ db_manager'.budgets = db_manager.budgets]_vars

\* an add_budget has failed, and was rolled back, on tables that hold a
\* transaction and a budget
C25_Witness ==
    /\ db_manager.ret.op = "add_budget"
    /\ db_manager.ret.raised
    /\ db_manager.ret.conn.rolled_back
    /\ db_manager.rows # <<>>
    /\ db_manager.budgets # <<>>

\* ------------------------------------------------------- other accounts
\* C26: a create, an update or a delete of a transaction on account A changes
\* the balance of A only: every other account, of the same owner or of
\* another, and every other persisted transaction are unchanged by the
\* operation.
C26_OtherAccountsUnchanged ==
    [][\A h \in Handlers :
          (pc[h] = "commit" /\ pc'[h] = "done")
             => LET t == resp'[h].tid
                    A == IF t \in DOMAIN transactions
                         THEN transactions[t].account_id
                         ELSE IF t \in DOMAIN transactions'
                         THEN transactions'[t].account_id
                         ELSE 0
                IN  /\ DOMAIN accounts' = DOMAIN accounts
                    /\ \A b \in DOMAIN accounts \ {A} : accounts'[b] = accounts[b]
                    /\ A \in DOMAIN accounts =>
                          /\ accounts'[A].user_id = accounts[A].user_id
                          /\ accounts'[A].is_active = accounts[A].is_active
                    /\ \A x \in (DOMAIN transactions \cup DOMAIN transactions') \ {t} :
                          /\ x \in DOMAIN transactions
                          /\ x \in DOMAIN transactions'
                          /\ transactions'[x] = transactions[x]]_vars

\* user 1 has deleted the expense on their first account, which has its
\* balance back, while the income on their second account is still stored
C26_Witness ==
    \E h \in Handlers :
        /\ resp[h].op = "delete" /\ resp[h].status = 200
        /\ resp[h].user_id = 1
        /\ accounts[1].balance = 1000
        /\ accounts[2].balance = 290
        /\ \E t \in DOMAIN transactions : transactions[t].account_id = 2

====
